---- MODULE Spec2Model ----
(***************************************************************************)
(* Model of the horoma training harness:                                   *)
(*   - semisupervised_trainer.main and                                     *)
(*     utils/model_utils.train_semi_supervised_network (the alternating    *)
(*     unlabeled / labeled / validate / checkpoint loop),                  *)
(*   - utils/model_utils.train_network (model selection on the validation  *)
(*     loss) with the classifier epoch trainer's label clamping,           *)
(*   - utils/model_utils.loop_over_unlabeled_data / loop_over_labeled_data *)
(*     (the infinite batch stream).                                        *)
(* One run executes one of the three; pc tells which.                      *)
(*                                                                         *)
(* Numbers: an F1 score in [0,1] is a level 0..MaxF1 (only comparisons of  *)
(* F1 scores matter to the code); a model / optimizer state is identified  *)
(* by the number of optimizer steps that produced it.                      *)
(***************************************************************************)
EXTENDS Integers, Sequences, FiniteSets, TLC

\* ---- bounds of the model ------------------------------------------------
MaxLen == 3         \* dataset sizes 1..MaxLen
MaxBatch == 2       \* batch sizes 1..MaxBatch
ShortEpochs == 1    \* n_epochs 0..ShortEpochs+1 in the runs that vary the data
MaxEpochs == 5      \* n_epochs 0..MaxEpochs in the runs that vary the scores
MaxPatience == 2    \* patience 0..MaxPatience
MaxF1 == 3          \* F1 levels 0..MaxF1 (0 is the score 0.0)
MaxLoss == 2        \* finite validation losses 0..MaxLoss
LabelBelow == 5     \* labels from -LabelBelow
FarLabel == 99      \* one label far above the class range
StreamLen == 5      \* dataset sizes 1..StreamLen of the stream runs
StreamBatch == 3    \* batch sizes 1..StreamBatch of the stream runs
MaxRequests == 12   \* batches requested from one stream
MaxLik == 2         \* likelihood levels 0..MaxLik of a DAMIC sample

\* ---- program constants ---------------------------------------------------
MaxClass == 16      \* `labels[labels > 16] = 16`
MinClass == 0       \* `labels[labels < 0] = 0`
StepSize == 10      \* StepLR(..., step_size=10, gamma=0.5)
DamicRows == 17     \* `torch.FloatTensor(17, len(inputs))`, `range(17)`
GateOutputs == 17   \* `nn.Linear(16 * 4 * 4, 17)` of the clustering network

VARIABLES
    pc,                 \* position of the running program
    outcome,            \* how the run ended ("running" while it has not)
    diag,               \* the "Directory for logging ..." diagnostic was printed
    lenLab,             \* len(train_labeled)
    lenUnlab,           \* len(train_unlabeled)
    batch_size,
    n_epochs,
    patience,
    dirExists,          \* the checkpoint directory exists
    n_labeled_batch,
    n_unlabeled_batch,
    epoch,              \* loop variable of the epoch loop (-1: not yet bound)
    best_f1,
    k,                  \* patience counter
    valid_f1,
    batch_idx,
    n_total,
    gen,                \* the batch stream generator of the running phase
    unsup_steps,        \* optimizer_unsupervised.step() calls so far
    sup_steps,          \* optimizer_supervised.step() calls so far
    unsup_sched,        \* unsup_scheduler.step() calls so far
    sup_sched,          \* sup_scheduler.step() calls so far
    ckpt,               \* the persisted checkpoint file
    saved,              \* epochs in which torch.save was called
    hist,               \* validation F1 of every validated epoch, in order
    trace,              \* events of the current epoch, in order
    mode,               \* train_network: "plain", "classifier" or "damic"
    train_len,          \* train_network: samples the train loader draws
    best_loss,
    valid_loss,
    best_model,         \* train_network: the deepcopy kept (None: -1)
    model_version,      \* train_network: optimizer steps applied to model
    raw_label,          \* classifier trainer: a label of the batch as loaded
    loss_label,         \* classifier trainer: that label as given to the loss
    pass_sizes,         \* stream: batch sizes yielded in the current pass
    prev_total,         \* stream: samples yielded by the pass before (-1: none)
    requests,           \* stream: batches requested so far
    enc_key,            \* configuration['enc_model']
    enc_class,          \* the class of encoding_model once constructed
    warned,             \* 'No encoding model specified. Using PCA.' was printed
    params,             \* updates applied to each parameter set of the models
    unsup_lr,           \* halvings applied to the unsupervised learning rate
    sup_lr,             \* halvings applied to the supervised learning rate
    variant,            \* train_network: the encoder class of model
    loss_used,          \* _train_one_epoch: the loss selected for the batch
    n_clusters,         \* DAMIC: experts the model was built with
    experts_used,       \* DAMIC: reconstructions the loss loop has read
    dataset_len,        \* train_network: len(train_loader.dataset)
    n_seen,             \* train_network: samples the epoch has processed
    denom,              \* train_network: divisor of the epoch's train_loss
    liks,               \* DAMIC: total likelihood of each sample of the batch
    backprop,           \* DAMIC: the value backward() was called on
    embed_model         \* fit: optimizer steps of the model that encoded the data

vars == <<pc, outcome, diag, lenLab, lenUnlab, batch_size, n_epochs, patience,
          dirExists, n_labeled_batch, n_unlabeled_batch, epoch, best_f1, k,
          valid_f1, batch_idx, n_total, gen, unsup_steps, sup_steps,
          unsup_sched, sup_sched, ckpt, saved, hist, trace, mode, train_len,
          best_loss, valid_loss, best_model, model_version, raw_label,
          loss_label, pass_sizes, prev_total, requests, enc_key, enc_class,
          warned, params, unsup_lr, sup_lr, variant, loss_used, n_clusters,
          experts_used, dataset_len, n_seen, denom, liks, backprop,
          embed_model>>

NoCkpt == [epoch |-> -1]
NoGen == [N |-> 0, B |-> 0, i |-> 0]

\* ---- the batch stream ----------------------------------------------------
\* len(DataLoader(data, batch_size)) with the default drop_last=False
DataLoaderLenDropLast(N, B) == N \div B
DataLoaderLen(N, B) == (N + B - 1) \div B

\* size of the i-th batch (from 0) of one pass of the DataLoader
BatchLen(N, B, i) == IF (i + 1) * B <= N THEN B ELSE N - i * B

\* `while True` around the pass over the DataLoader
LoopOnce == FALSE
LoopForever == TRUE

\* loop_over_*_data(data, batch_size): a fresh generator
NewGen(N, B) == [N |-> N, B |-> B, i |-> 0]

\* next(generator): the batch it yields, or StopIteration
GenNextBatch(g) ==
    IF g.i < DataLoaderLen(g.N, g.B)
    THEN [stop |-> FALSE, restarted |-> FALSE,
          size |-> BatchLen(g.N, g.B, g.i), gen |-> [g EXCEPT !.i = g.i + 1]]
    ELSE IF LoopForever /\ DataLoaderLen(g.N, g.B) > 0
         THEN [stop |-> FALSE, restarted |-> TRUE,
               size |-> BatchLen(g.N, g.B, 0), gen |-> [g EXCEPT !.i = 1]]
         ELSE [stop |-> TRUE, restarted |-> FALSE, size |-> 0, gen |-> g]

\* ---- semisupervised_trainer.main ----------------------------------------
NBatchesCeil(len, B) == (len + B - 1) \div B
NBatches(len, B) == len \div B

\* ---- train_semi_supervised_network --------------------------------------
\* the statements of one epoch, in program order
PhaseAfterSwapped(p) ==
    CASE p = "sched_unsup" -> "sched_sup"
      [] p = "sched_sup"   -> "sup"
      [] p = "sup"         -> "unsup"
      [] p = "unsup"       -> "validate"
      [] p = "validate"    -> "decide"
      [] OTHER             -> "for"
PhaseAfter(p) ==
    CASE p = "sched_unsup" -> "sched_sup"
      [] p = "sched_sup"   -> "unsup"
      [] p = "unsup"       -> "sup"
      [] p = "sup"         -> "validate"
      [] p = "validate"    -> "decide"
      [] OTHER             -> "for"

\* `if valid_f1 > best_f1`
ImprovesOrTies(f, best) == f >= best
Improves(f, best) == f > best

\* `elif k < patience`
PatienceLeftStrict(kk, p) == kk + 1 < p
PatienceLeft(kk, p) == kk < p

\* `except FileNotFoundError as e: print(...); raise e`
HandlerSwallows == FALSE
HandlerReraises == TRUE

\* the encoder classes of models/encoders.py and the attributes each defines
\* among those train_semi_supervised_network and the epoch trainers read
Attributes(cls) ==
    CASE cls = "PCAEncoder" -> {}
      [] cls = "VAE"    -> {"is_variational", "encoder", "decoder"}
      [] cls = "AE"     -> {"is_variational", "encoder", "decoder"}
      [] cls = "CAE"    -> {"is_variational", "encoder", "embedding",
                            "decode_embedding", "decoder"}
      [] cls = "CVAE"   -> {"is_variational", "calculate_own_loss", "encoder",
                            "decode_embedding", "decoder"}
      [] cls = "ConvAE" -> {"is_variational", "calculate_own_loss"}
      [] OTHER          -> {}

\* the keys of configuration['enc_model'] the entry point knows, and one it
\* does not
KnownKeys == {"pca", "vae", "ae", "cae", "cvae", "convae"}
EncKeys == KnownKeys \cup {"resnet"}

\* the if / elif chain that constructs encoding_model
EncoderFor(key) ==
    CASE key = "pca"    -> "PCAEncoder"
      [] key = "vae"    -> "VAE"
      [] key = "ae"     -> "AE"
      [] key = "cae"    -> "CAE"
      [] key = "cvae"   -> "CVAE"
      [] key = "convae" -> "ConvAE"
      [] OTHER          -> "PCAEncoder"

\* the parameter sets of the two models and of the two optimizers
GroupNames ==
    {"encoder", "embedding", "decode_embedding", "decoder", "classifier"}
NoUpdates == [g \in GroupNames |-> 0]
ParamUnsupWithClassifier == GroupNames
ParamUnsup == {"encoder", "embedding", "decode_embedding", "decoder"}
ParamSupClassifierOnly == {"classifier"}
ParamSup == {"encoder", "embedding", "classifier"}
\* the attributes of encoding_model that param_unsup and param_sup read
NeededParts == {"encoder", "embedding", "decode_embedding", "decoder"}

\* optimizer.step(): every parameter set of the optimizer is updated in place
OptimizerStep(groups, ps) ==
    [g \in GroupNames |-> IF g \in groups THEN ps[g] + 1 ELSE ps[g]]

\* StepLR: the learning rate is the initial rate halved last_epoch //
\* step_size times; last_epoch counts the step() calls
StepLREveryStep(last_epoch) == last_epoch
StepLR(last_epoch) == last_epoch \div StepSize

\* labels of a batch: below the classes, the first and last class, above
EdgeLabels == {0 - LabelBelow, MinClass, MaxClass, MaxClass + 1, FarLabel}
\* nn.CrossEntropyLoss over the 17 class logits takes targets 0..16 only
CrossEntropyAccepts(l) == l \in MinClass..MaxClass
\* `targets = targets.squeeze().to(device).long()`: the label as it is
Targets(l) == l

tnOnly == <<mode, train_len, best_loss, valid_loss, best_model, model_version,
            variant, loss_used, n_clusters, experts_used, dataset_len, n_seen,
            denom, liks, backprop, embed_model>>
labelVars == <<raw_label, loss_label>>
cfgVars == <<enc_key, enc_class, warned>>
streamOnly == <<pass_sizes, prev_total, requests>>
dataVarsNL == <<lenLab, lenUnlab, batch_size, n_epochs, patience, dirExists,
                tnOnly, streamOnly, cfgVars>>
dataVars == <<dataVarsNL, labelVars>>
selVars == <<best_f1, k, valid_f1, ckpt, saved, hist>>
optVars == <<unsup_steps, sup_steps, unsup_sched, sup_sched, params, unsup_lr,
             sup_lr>>
phaseVars == <<batch_idx, n_total, gen>>

\* floats: a finite loss 0..MaxLoss, the infinities and NaN
Fin(v) == <<"fin", v>>
PosInf == <<"inf", 1>>
NegInf == <<"inf", -1>>
NaN == <<"nan", 0>>
NoFloat == <<"none", 0>>
NotEncoded == 0 - 2   \* encode_dataset has not run
LossValues == {Fin(v) : v \in 0..MaxLoss} \cup {PosInf, NegInf, NaN}
NoLabel == 0 - 1000   \* no label is bound

TNIdle ==
    /\ mode = "none"
    /\ train_len = 0
    /\ best_loss = PosInf
    /\ valid_loss = PosInf
    /\ best_model = -1
    /\ model_version = 0
    /\ raw_label = NoLabel
    /\ loss_label = NoLabel
    /\ variant = "none"
    /\ loss_used = "none"
    /\ n_clusters = 0
    /\ experts_used = 0
    /\ dataset_len = 0
    /\ n_seen = 0
    /\ denom = 0
    /\ liks = <<>>
    /\ backprop = NoFloat
    /\ embed_model = NotEncoded

StreamIdle ==
    /\ pass_sizes = <<>>
    /\ prev_total = -1
    /\ requests = 0

SemiIdle ==
    /\ lenLab = 0
    /\ lenUnlab = 0
    /\ patience = 0
    /\ n_labeled_batch = 0
    /\ n_unlabeled_batch = 0
    /\ best_f1 = 0
    /\ k = 0
    /\ valid_f1 = 0
    /\ n_total = 0
    /\ unsup_steps = 0
    /\ sup_steps = 0
    /\ unsup_sched = 0
    /\ sup_sched = 0
    /\ hist = <<>>
    /\ trace = <<>>
    /\ enc_key = "none"
    /\ enc_class = "none"
    /\ warned = FALSE
    /\ params = NoUpdates
    /\ unsup_lr = 0
    /\ sup_lr = 0

InitSemi ==
    /\ TNIdle
    /\ StreamIdle
    /\ pc = "config"
    /\ outcome = "running"
    /\ diag = FALSE
    /\ \/ /\ lenLab \in 1..MaxLen
          /\ lenUnlab \in 1..MaxLen
          /\ batch_size \in 1..MaxBatch
          /\ n_epochs \in 0..(ShortEpochs + 1)
          /\ patience = 1
          /\ dirExists = TRUE
          /\ enc_key = "cae"
       \/ /\ lenLab = 1
          /\ lenUnlab = 1
          /\ batch_size = 1
          /\ n_epochs \in 0..MaxEpochs
          /\ patience \in 0..MaxPatience
          /\ dirExists \in BOOLEAN
          /\ enc_key = "cae"
       \/ /\ lenLab = 1
          /\ lenUnlab = 1
          /\ batch_size = 1
          /\ n_epochs = 1
          /\ patience = 0
          /\ dirExists = TRUE
          /\ enc_key \in EncKeys
    /\ enc_class = "none"
    /\ warned = FALSE
    /\ params = NoUpdates
    /\ unsup_lr = 0
    /\ sup_lr = 0
    /\ n_labeled_batch = 0
    /\ n_unlabeled_batch = 0
    /\ epoch = -1
    /\ best_f1 = 0
    /\ k = 0
    /\ valid_f1 = 0
    /\ batch_idx = 0
    /\ n_total = 0
    /\ gen = NoGen
    /\ unsup_steps = 0
    /\ sup_steps = 0
    /\ unsup_sched = 0
    /\ sup_sched = 0
    /\ ckpt = NoCkpt
    /\ saved = {}
    /\ hist = <<>>
    /\ trace = <<>>

\* main: the batch counts, then the call of train_semi_supervised_network
\* up to the epoch loop (model_utils.py 512-514: best_f1 = 0.0, k = 0)
\* (param_unsup / param_sup read encoding_model.encoder, .embedding,
\* .decode_embedding and .decoder: AttributeError when one is missing)
Main ==
    /\ pc = "main"
    /\ n_labeled_batch' = NBatches(lenLab, batch_size)
    /\ n_unlabeled_batch' = NBatches(lenLab, batch_size)
    /\ best_f1' = 0
    /\ k' = 0
    /\ IF NeededParts \subseteq Attributes(enc_class)
       THEN pc' = "for" /\ UNCHANGED outcome
       ELSE pc' = "done" /\ outcome' = "attribute_error"
    /\ UNCHANGED <<diag, dataVars, epoch, valid_f1, phaseVars,
                   optVars, ckpt, saved, hist, trace>>

\* __main__ of semisupervised_trainer: encoding_model is constructed from
\* configuration['enc_model']
Configure ==
    /\ pc = "config"
    /\ enc_class' = EncoderFor(enc_key)
    /\ warned' = (enc_key \notin KnownKeys)
    /\ pc' = "main"
    /\ UNCHANGED <<outcome, diag, lenLab, lenUnlab, batch_size, n_epochs,
                   patience, dirExists, tnOnly, streamOnly, labelVars, enc_key,
                   n_labeled_batch, n_unlabeled_batch, epoch, selVars,
                   phaseVars, optVars, trace>>

\* `for epoch in range(n_epochs)`: bind the next epoch, or leave the loop
ForEpoch ==
    /\ pc = "for"
    /\ IF epoch + 1 < n_epochs
       THEN /\ epoch' = epoch + 1
            /\ pc' = "sched_unsup"
            /\ trace' = <<>>
            /\ UNCHANGED outcome
       ELSE /\ pc' = "done"
            /\ outcome' = "exhausted"
            /\ UNCHANGED <<epoch, trace>>
    /\ UNCHANGED <<diag, dataVars, n_labeled_batch, n_unlabeled_batch,
                   selVars, phaseVars, optVars>>

\* what begins when control reaches position p
Enter(p) ==
    /\ pc' = p
    /\ IF p = "unsup"
       THEN /\ gen' = NewGen(lenUnlab, batch_size)
            /\ batch_idx' = 0
            /\ n_total' = 0
       ELSE IF p = "sup"
       THEN /\ gen' = NewGen(lenLab, batch_size)
            /\ batch_idx' = 0
            /\ n_total' = 0
       ELSE UNCHANGED phaseVars

StepUnsupScheduler ==
    /\ pc = "sched_unsup"
    /\ unsup_sched' = unsup_sched + 1
    /\ unsup_lr' = StepLR(unsup_sched + 1)
    /\ trace' = Append(trace, "unsup_sched")
    /\ Enter(PhaseAfter("sched_unsup"))
    /\ UNCHANGED <<outcome, diag, dataVars, n_labeled_batch, n_unlabeled_batch,
                   epoch, selVars, unsup_steps, sup_steps, sup_sched, params,
                   sup_lr>>

StepSupScheduler ==
    /\ pc = "sched_sup"
    /\ sup_sched' = sup_sched + 1
    /\ sup_lr' = StepLR(sup_sched + 1)
    /\ trace' = Append(trace, "sup_sched")
    /\ Enter(PhaseAfter("sched_sup"))
    /\ UNCHANGED <<outcome, diag, dataVars, n_labeled_batch, n_unlabeled_batch,
                   epoch, selVars, unsup_steps, sup_steps, unsup_sched, params,
                   unsup_lr>>

\* _train_one_epoch_unlabeled: one pass of the loop body that trains
UnlabeledBatch ==
    /\ pc = "unsup"
    /\ LET r == GenNextBatch(gen) IN
        /\ ~r.stop
        /\ batch_idx < n_unlabeled_batch
        /\ gen' = r.gen
        /\ n_total' = n_total + r.size
    /\ batch_idx' = batch_idx + 1
    /\ unsup_steps' = unsup_steps + 1
    /\ params' = OptimizerStep(ParamUnsup, params)
    /\ trace' = Append(trace, "unsup_step")
    /\ UNCHANGED <<pc, outcome, diag, dataVars, n_labeled_batch,
                   n_unlabeled_batch, epoch, selVars, sup_steps, unsup_sched,
                   sup_sched, unsup_lr, sup_lr>>

\* _train_one_epoch_unlabeled: the `break`, then running_loss / n_total
UnlabeledEnd ==
    /\ pc = "unsup"
    /\ LET r == GenNextBatch(gen) IN
        /\ r.stop \/ ~(batch_idx < n_unlabeled_batch)
        /\ IF n_total = 0
           THEN /\ pc' = "done"
                /\ outcome' = "zero_division"
                /\ gen' = r.gen
                /\ UNCHANGED <<batch_idx, n_total>>
           ELSE /\ Enter(PhaseAfter("unsup"))
                /\ UNCHANGED outcome
    /\ UNCHANGED <<diag, dataVars, n_labeled_batch, n_unlabeled_batch, epoch,
                   selVars, optVars, trace>>

\* _train_one_epoch_labeled: one pass of the loop body that trains
LabeledBatch ==
    /\ pc = "sup"
    /\ LET r == GenNextBatch(gen) IN
        /\ ~r.stop
        /\ batch_idx < n_labeled_batch
        /\ gen' = r.gen
        /\ n_total' = n_total + r.size
    /\ \E l \in EdgeLabels :
        /\ CrossEntropyAccepts(Targets(l))
        /\ raw_label' = l
        /\ loss_label' = Targets(l)
    /\ batch_idx' = batch_idx + 1
    /\ sup_steps' = sup_steps + 1
    /\ params' = OptimizerStep(ParamSup, params)
    /\ trace' = Append(trace, "sup_step")
    /\ UNCHANGED <<pc, outcome, diag, dataVarsNL, n_labeled_batch,
                   n_unlabeled_batch, epoch, selVars, unsup_steps, unsup_sched,
                   sup_sched, unsup_lr, sup_lr>>

\* _train_one_epoch_labeled: `criterion(outputs, targets)` raises for a
\* target outside the classes
LabeledTargetError ==
    /\ pc = "sup"
    /\ LET r == GenNextBatch(gen) IN
        /\ ~r.stop
        /\ batch_idx < n_labeled_batch
        /\ gen' = r.gen
    /\ \E l \in EdgeLabels :
        /\ ~CrossEntropyAccepts(Targets(l))
        /\ raw_label' = l
        /\ loss_label' = Targets(l)
    /\ pc' = "done"
    /\ outcome' = "target_out_of_bounds"
    /\ UNCHANGED <<diag, dataVarsNL, n_labeled_batch, n_unlabeled_batch, epoch,
                   selVars, optVars, batch_idx, n_total, trace>>

\* _train_one_epoch_labeled: the `break`, then running_loss / n_total
LabeledEnd ==
    /\ pc = "sup"
    /\ LET r == GenNextBatch(gen) IN
        /\ r.stop \/ ~(batch_idx < n_labeled_batch)
        /\ IF n_total = 0
           THEN /\ pc' = "done"
                /\ outcome' = "zero_division"
                /\ gen' = r.gen
                /\ UNCHANGED <<batch_idx, n_total>>
           ELSE /\ Enter(PhaseAfter("sup"))
                /\ UNCHANGED outcome
    /\ raw_label' = NoLabel
    /\ loss_label' = NoLabel
    /\ UNCHANGED <<diag, dataVarsNL, n_labeled_batch, n_unlabeled_batch, epoch,
                   selVars, optVars, trace>>

\* _test_semisupervised: the validation F1 of this epoch
Validate ==
    /\ pc = "validate"
    /\ \E l \in EdgeLabels : CrossEntropyAccepts(Targets(l))
    /\ \E f \in 0..MaxF1 :
        /\ valid_f1' = f
        /\ hist' = Append(hist, f)
    /\ trace' = Append(trace, "validate")
    /\ Enter(PhaseAfter("validate"))
    /\ UNCHANGED <<outcome, diag, dataVars, n_labeled_batch, n_unlabeled_batch,
                   epoch, best_f1, k, ckpt, saved, optVars>>

\* _test_semisupervised: `classification_criterion(pred_targets, targets)`
\* raises for a target outside the classes
ValidateTargetError ==
    /\ pc = "validate"
    /\ \E l \in EdgeLabels :
        /\ ~CrossEntropyAccepts(Targets(l))
        /\ raw_label' = l
        /\ loss_label' = Targets(l)
    /\ pc' = "done"
    /\ outcome' = "target_out_of_bounds"
    /\ UNCHANGED <<diag, dataVarsNL, n_labeled_batch, n_unlabeled_batch, epoch,
                   selVars, optVars, phaseVars, trace>>

\* the payload handed to torch.save
Payload ==
    [epoch |-> epoch, best_f1 |-> valid_f1,
     unsup_optimizer |-> unsup_steps, sup_optimizer |-> sup_steps]

\* `if valid_f1 > best_f1`: torch.save succeeds
SaveBest ==
    /\ pc = "decide"
    /\ Improves(valid_f1, best_f1)
    /\ dirExists
    /\ best_f1' = valid_f1
    /\ k' = 0
    /\ saved' = saved \cup {epoch}
    /\ ckpt' = Payload
    /\ trace' = Append(trace, "decide")
    /\ pc' = PhaseAfter("decide")
    /\ UNCHANGED <<outcome, diag, dataVars, n_labeled_batch, n_unlabeled_batch,
                   epoch, valid_f1, hist, phaseVars, optVars>>

\* `if valid_f1 > best_f1`: torch.save raises FileNotFoundError
SaveFails ==
    /\ pc = "decide"
    /\ Improves(valid_f1, best_f1)
    /\ ~dirExists
    /\ best_f1' = valid_f1
    /\ k' = 0
    /\ saved' = saved \cup {epoch}
    /\ diag' = TRUE
    /\ trace' = Append(trace, "decide")
    /\ IF HandlerReraises
       THEN pc' = "done" /\ outcome' = "ckpt_error"
       ELSE pc' = PhaseAfter("decide") /\ UNCHANGED outcome
    /\ UNCHANGED <<dataVars, n_labeled_batch, n_unlabeled_batch, epoch,
                   valid_f1, ckpt, hist, phaseVars, optVars>>

\* `elif k < patience: k += 1`
PatienceTick ==
    /\ pc = "decide"
    /\ ~Improves(valid_f1, best_f1)
    /\ PatienceLeft(k, patience)
    /\ k' = k + 1
    /\ trace' = Append(trace, "decide")
    /\ pc' = PhaseAfter("decide")
    /\ UNCHANGED <<outcome, diag, dataVars, n_labeled_batch, n_unlabeled_batch,
                   epoch, best_f1, valid_f1, ckpt, saved, hist, phaseVars,
                   optVars>>

\* `else: print("Early stopping......"); break`
EarlyStop ==
    /\ pc = "decide"
    /\ ~Improves(valid_f1, best_f1)
    /\ ~PatienceLeft(k, patience)
    /\ trace' = Append(trace, "decide")
    /\ pc' = "done"
    /\ outcome' = "early_stop"
    /\ UNCHANGED <<diag, dataVars, n_labeled_batch, n_unlabeled_batch, epoch,
                   selVars, phaseVars, optVars>>

NextSemi ==
    \/ Configure
    \/ Main
    \/ ForEpoch
    \/ StepUnsupScheduler
    \/ StepSupScheduler
    \/ UnlabeledBatch
    \/ UnlabeledEnd
    \/ LabeledBatch
    \/ LabeledTargetError
    \/ LabeledEnd
    \/ Validate
    \/ ValidateTargetError
    \/ SaveBest
    \/ SaveFails
    \/ PatienceTick
    \/ EarlyStop

\* ---- train_network -------------------------------------------------------
\* Python's `a < b` on floats: every comparison with NaN is False
FloatLt(a, b) ==
    IF a = NaN \/ b = NaN THEN FALSE
    ELSE IF a = b THEN FALSE
    ELSE IF a = NegInf \/ b = PosInf THEN TRUE
    ELSE IF a = PosInf \/ b = NegInf THEN FALSE
    ELSE a[2] < b[2]

\* `labels[labels < 0] = 0; labels[labels > 16] = 16`
Clamp(l) ==
    LET a == IF l < 0 THEN MinClass ELSE l
    IN  IF a > MaxClass THEN MaxClass ELSE a

Labels == ((0 - LabelBelow)..(MaxClass + 2)) \cup {FarLabel}

\* `except FileNotFoundError as e: print(...); raise e` of train_network
TNHandlerSwallows == FALSE
TNHandlerReraises == TRUE

semiOnly == <<lenLab, lenUnlab, patience, n_labeled_batch, n_unlabeled_batch,
              best_f1, k, valid_f1, n_total, optVars, hist, trace, cfgVars>>
tnCfg == <<mode, train_len, variant, n_clusters, dataset_len>>
tnFrame == <<semiOnly, streamOnly, gen, tnCfg, batch_size, n_epochs,
             dirExists, embed_model>>
tnSel == <<ckpt, saved, best_loss, valid_loss, best_model>>
tnBatch == <<loss_used, experts_used, liks, backprop, labelVars>>

\* `model.is_variational` and `model.calculate_own_loss` as the classes of
\* models/encoders.py set them
IsVariational(cls) == cls \in {"VAE", "CVAE", "ConvAE"}
CalculateOwnLoss(cls) == cls = "ConvAE"
Variants == {"AE", "CAE", "VAE", "CVAE", "ConvAE"}

\* the loss one batch of _train_one_epoch / _test uses; reading an attribute
\* the model never set raises AttributeError
LossSelect(cls) ==
    IF ~IsVariational(cls) THEN "mse"
    ELSE IF "calculate_own_loss" \notin Attributes(cls) THEN "AttributeError"
    ELSE IF CalculateOwnLoss(cls) THEN "own"
    ELSE "elbo"

\* float arithmetic on the values of LossValues and on negative finite values
FloatNeg(a) ==
    IF a = NaN THEN NaN
    ELSE IF a = PosInf THEN NegInf
    ELSE IF a = NegInf THEN PosInf
    ELSE Fin(0 - a[2])
FloatAdd(a, b) ==
    IF a = NaN \/ b = NaN THEN NaN
    ELSE IF (a = PosInf /\ b = NegInf) \/ (a = NegInf /\ b = PosInf) THEN NaN
    ELSE IF a = PosInf \/ b = PosInf THEN PosInf
    ELSE IF a = NegInf \/ b = NegInf THEN NegInf
    ELSE Fin(a[2] + b[2])

\* a sample's total likelihood sum_i gate_i * exp(-MSE_i / 2), on a grid:
\* level 0 is exactly 0.0, level j > 0 is e^(j - MaxLik), so MaxLik is 1.0
LikLevels == 0..MaxLik
\* `total_loss.log()`
Log(lik) == IF lik = 0 THEN NegInf ELSE Fin(lik - MaxLik)
\* `total_loss_log.sum()`
RECURSIVE SumLog(_)
SumLog(s) ==
    IF s = <<>> THEN Fin(0) ELSE FloatAdd(Log(Head(s)), SumLog(Tail(s)))
\* `total_loss_log_sum.backward()`: the quantity the optimizer minimises
Backpropagated(s) == SumLog(s)

\* model.train_damic returns one reconstruction per expert of the model
TrainDamicReconstructions(n) == n
\* `for i in range(17)`: the loop indexes ae_reconstruction[0..16]
ClusterChoices == {1, DamicRows}

\* the divisor of `train_loss = running_loss / ...` of the three epoch
\* trainers of train_network
EpochLossDivisor(m, dlen, nbatches) ==
    CASE m = "plain"      -> dlen
      [] m = "classifier" -> nbatches
      [] m = "damic"      -> nbatches

InitTN ==
    /\ SemiIdle
    /\ StreamIdle
    /\ pc = "tn_for"
    /\ outcome = "running"
    /\ diag = FALSE
    /\ train_len \in 1..MaxLen
    /\ batch_size \in 1..MaxBatch
    /\ n_epochs \in 0..(ShortEpochs + 1)
    /\ dirExists \in BOOLEAN
    /\ \/ /\ mode = "plain"
          /\ variant \in Variants
          /\ n_clusters = 0
          /\ dataset_len \in {train_len, train_len + 1}
       \/ /\ mode = "classifier"
          /\ variant = "none"
          /\ n_clusters = 0
          /\ dataset_len = train_len
       \/ /\ mode = "damic"
          /\ variant = "none"
          /\ n_clusters \in ClusterChoices
          /\ dataset_len = train_len
    /\ epoch = -1
    /\ batch_idx = 0
    /\ gen = NoGen
    /\ ckpt = NoCkpt
    /\ saved = {}
    /\ best_loss = PosInf
    /\ valid_loss = PosInf
    /\ best_model = -1
    /\ model_version = 0
    /\ raw_label = NoLabel
    /\ loss_label = NoLabel
    /\ loss_used = "none"
    /\ experts_used = 0
    /\ n_seen = 0
    /\ denom = 0
    /\ liks = <<>>
    /\ backprop = NoFloat
    /\ embed_model = NotEncoded

\* `for epoch in range(n_epochs)`, or `return best_model`
TNForEpoch ==
    /\ pc = "tn_for"
    /\ IF epoch + 1 < n_epochs
       THEN /\ epoch' = epoch + 1
            /\ batch_idx' = 0
            /\ n_seen' = 0
            /\ pc' = "tn_train"
            /\ UNCHANGED outcome
       ELSE /\ pc' = "done"
            /\ outcome' = "returned"
            /\ UNCHANGED <<epoch, batch_idx, n_seen>>
    /\ UNCHANGED <<tnFrame, diag, tnSel, model_version, tnBatch, denom>>

\* one batch of _train_one_epoch: the loss is selected, backpropagated and
\* the optimizer steps
TNTrainBatch ==
    /\ pc = "tn_train"
    /\ mode = "plain"
    /\ batch_idx < DataLoaderLen(train_len, batch_size)
    /\ LossSelect(variant) # "AttributeError"
    /\ loss_used' = LossSelect(variant)
    /\ n_seen' = n_seen + BatchLen(train_len, batch_size, batch_idx)
    /\ model_version' = model_version + 1
    /\ batch_idx' = batch_idx + 1
    /\ UNCHANGED <<tnFrame, pc, outcome, diag, epoch, tnSel, experts_used,
                   liks, backprop, labelVars, denom>>

\* one batch of _train_one_epoch: `model.calculate_own_loss` is read from a
\* model that never set it
TNLossAttributeError ==
    /\ pc = "tn_train"
    /\ mode = "plain"
    /\ batch_idx < DataLoaderLen(train_len, batch_size)
    /\ LossSelect(variant) = "AttributeError"
    /\ loss_used' = LossSelect(variant)
    /\ pc' = "done"
    /\ outcome' = "attribute_error"
    /\ UNCHANGED <<tnFrame, diag, epoch, batch_idx, tnSel, model_version,
                   experts_used, liks, backprop, labelVars, n_seen, denom>>

\* one batch of _train_one_epoch_classifier: the labels are clamped, then
\* the cross entropy is backpropagated
TNTrainBatchClassifier ==
    /\ pc = "tn_train"
    /\ mode = "classifier"
    /\ batch_idx < DataLoaderLen(train_len, batch_size)
    /\ \E l \in Labels :
          /\ raw_label' = l
          /\ loss_label' = Clamp(l)
    /\ n_seen' = n_seen + BatchLen(train_len, batch_size, batch_idx)
    /\ model_version' = model_version + 1
    /\ batch_idx' = batch_idx + 1
    /\ UNCHANGED <<tnFrame, pc, outcome, diag, epoch, tnSel, loss_used,
                   experts_used, liks, backprop, denom>>

\* one batch of _train_one_epoch_damic: the 17 rows of loss_autoencoders are
\* filled, the per-sample likelihoods are summed in the log, and their sum
\* is backpropagated
TNTrainBatchDamic ==
    /\ pc = "tn_train"
    /\ mode = "damic"
    /\ batch_idx < DataLoaderLen(train_len, batch_size)
    /\ DamicRows <= TrainDamicReconstructions(n_clusters)
    /\ experts_used' = DamicRows
    /\ \E s \in [1..BatchLen(train_len, batch_size, batch_idx) -> LikLevels] :
          /\ liks' = s
          /\ backprop' = Backpropagated(s)
    /\ n_seen' = n_seen + BatchLen(train_len, batch_size, batch_idx)
    /\ model_version' = model_version + 1
    /\ batch_idx' = batch_idx + 1
    /\ UNCHANGED <<tnFrame, pc, outcome, diag, epoch, tnSel, loss_used,
                   labelVars, denom>>

\* one batch of _train_one_epoch_damic: `ae_reconstruction[i]` is read past
\* the reconstructions the model returned
TNDamicIndexError ==
    /\ pc = "tn_train"
    /\ mode = "damic"
    /\ batch_idx < DataLoaderLen(train_len, batch_size)
    /\ ~(DamicRows <= TrainDamicReconstructions(n_clusters))
    /\ experts_used' = TrainDamicReconstructions(n_clusters)
    /\ pc' = "done"
    /\ outcome' = "index_error"
    /\ UNCHANGED <<tnFrame, diag, epoch, batch_idx, tnSel, model_version,
                   loss_used, liks, backprop, labelVars, n_seen, denom>>

\* the train loader is exhausted: the epoch trainer returns
\* running_loss divided by its divisor
TNTrainEnd ==
    /\ pc = "tn_train"
    /\ ~(batch_idx < DataLoaderLen(train_len, batch_size))
    /\ denom' = EpochLossDivisor(mode, dataset_len,
                                 DataLoaderLen(train_len, batch_size))
    /\ raw_label' = NoLabel
    /\ loss_label' = NoLabel
    /\ liks' = <<>>
    /\ backprop' = NoFloat
    /\ pc' = "tn_test"
    /\ UNCHANGED <<tnFrame, outcome, diag, epoch, batch_idx, tnSel,
                   model_version, loss_used, experts_used, n_seen>>

\* _test / _test_classifier: the validation loss of this epoch
TNTest ==
    /\ pc = "tn_test"
    /\ valid_loss' \in LossValues
    /\ pc' = "tn_decide"
    /\ UNCHANGED <<tnFrame, outcome, diag, epoch, batch_idx, ckpt, saved,
                   best_loss, best_model, model_version, tnBatch, n_seen,
                   denom>>

\* _test_classifier: `criterion(outputs, labels)` raises for a label outside
\* the classes
TNTestTargetError ==
    /\ pc = "tn_test"
    /\ mode \in {"classifier", "damic"}
    /\ \E l \in EdgeLabels :
        /\ ~CrossEntropyAccepts(Targets(l))
        /\ raw_label' = l
        /\ loss_label' = Targets(l)
    /\ pc' = "done"
    /\ outcome' = "target_out_of_bounds"
    /\ UNCHANGED <<tnFrame, diag, epoch, batch_idx, tnSel, model_version,
                   loss_used, experts_used, liks, backprop, n_seen, denom>>

\* `if valid_loss < best_loss`: torch.save succeeds
TNSaveBest ==
    /\ pc = "tn_decide"
    /\ FloatLt(valid_loss, best_loss)
    /\ dirExists
    /\ saved' = saved \cup {epoch}
    /\ ckpt' = [epoch |-> epoch, loss |-> valid_loss, model |-> model_version]
    /\ best_loss' = valid_loss
    /\ best_model' = model_version
    /\ pc' = "tn_for"
    /\ UNCHANGED <<tnFrame, outcome, diag, epoch, batch_idx, valid_loss,
                   model_version, tnBatch, n_seen, denom>>

\* `if valid_loss < best_loss`: torch.save raises FileNotFoundError
TNSaveFails ==
    /\ pc = "tn_decide"
    /\ FloatLt(valid_loss, best_loss)
    /\ ~dirExists
    /\ saved' = saved \cup {epoch}
    /\ diag' = TRUE
    /\ IF TNHandlerReraises
       THEN pc' = "done" /\ outcome' = "ckpt_error"
       ELSE pc' = "tn_for" /\ UNCHANGED outcome
    /\ UNCHANGED <<tnFrame, epoch, batch_idx, ckpt, best_loss, valid_loss,
                   best_model, model_version, tnBatch, n_seen, denom>>

\* the validation loss is not below best_loss
TNNoImprove ==
    /\ pc = "tn_decide"
    /\ ~FloatLt(valid_loss, best_loss)
    /\ pc' = "tn_for"
    /\ UNCHANGED <<tnFrame, outcome, diag, epoch, batch_idx, tnSel,
                   model_version, tnBatch, n_seen, denom>>

\* the model the fit method of an encoder class hands to encode_dataset:
\* best_model in VAE.fit and AE.fit, self in ConvAE.fit, CVAE.fit and CAE.fit
EncodedWith(cls, best, self) == IF cls \in {"VAE", "AE"} THEN best ELSE self

\* fit, after train_network has returned best_model: the data is encoded
TNFit ==
    /\ pc = "done"
    /\ outcome = "returned"
    /\ mode = "plain"
    /\ EncodedWith(variant, best_model, model_version) # -1
    /\ embed_model' = EncodedWith(variant, best_model, model_version)
    /\ outcome' = "fitted"
    /\ UNCHANGED <<semiOnly, streamOnly, gen, tnCfg, batch_size, n_epochs,
                   dirExists, pc, diag, epoch, batch_idx, tnSel,
                   model_version, tnBatch, n_seen, denom>>

\* fit, after train_network has returned None: `model.encode(inputs)` of
\* encode_dataset raises
TNFitNoneError ==
    /\ pc = "done"
    /\ outcome = "returned"
    /\ mode = "plain"
    /\ EncodedWith(variant, best_model, model_version) = -1
    /\ outcome' = "none_type_error"
    /\ UNCHANGED <<tnFrame, pc, diag, epoch, batch_idx, tnSel, model_version,
                   tnBatch, n_seen, denom>>

NextTN ==
    \/ TNForEpoch
    \/ TNFit
    \/ TNFitNoneError
    \/ TNTrainBatch
    \/ TNLossAttributeError
    \/ TNTrainBatchClassifier
    \/ TNTrainBatchDamic
    \/ TNDamicIndexError
    \/ TNTrainEnd
    \/ TNTest
    \/ TNTestTargetError
    \/ TNSaveBest
    \/ TNSaveFails
    \/ TNNoImprove

\* ---- a consumer of loop_over_unlabeled_data / loop_over_labeled_data -----
RECURSIVE SeqSum(_)
SeqSum(s) == IF s = <<>> THEN 0 ELSE Head(s) + SeqSum(Tail(s))

InitStream ==
    /\ SemiIdle
    /\ TNIdle
    /\ StreamIdle
    /\ pc = "stream"
    /\ outcome = "running"
    /\ diag = FALSE
    /\ \E N \in 1..StreamLen, B \in 1..StreamBatch :
          /\ gen = NewGen(N, B)
          /\ batch_size = B
    /\ n_epochs = 0
    /\ dirExists = TRUE
    /\ epoch = -1
    /\ batch_idx = 0
    /\ ckpt = NoCkpt
    /\ saved = {}

\* `for batch_idx, batch in enumerate(loop_over_..._data(data, batch_size))`:
\* the next batch is requested
StreamRequest ==
    /\ pc = "stream"
    /\ requests < MaxRequests
    /\ LET r == GenNextBatch(gen) IN
        IF r.stop
        THEN /\ pc' = "done"
             /\ outcome' = "StopIteration"
             /\ UNCHANGED <<gen, pass_sizes, prev_total, batch_idx>>
        ELSE /\ gen' = r.gen
             /\ pass_sizes' = IF r.restarted THEN <<r.size>>
                              ELSE Append(pass_sizes, r.size)
             /\ prev_total' = IF r.restarted THEN SeqSum(pass_sizes)
                              ELSE prev_total
             /\ batch_idx' = batch_idx + 1
             /\ UNCHANGED <<pc, outcome>>
    /\ requests' = requests + 1
    /\ UNCHANGED <<semiOnly, tnOnly, labelVars, diag, batch_size, n_epochs,
                   dirExists, epoch, ckpt, saved>>

NextStream == StreamRequest

\* ---- which program a state belongs to ------------------------------------
Semi == lenLab > 0
TN == train_len > 0
Stream == pc = "stream" \/ requests > 0

\* ---- what the validation history says, computed from hist alone ----------
SetMax(S) == CHOOSE x \in S : \A y \in S : y <= x
\* the best F1 of the first n epochs (0.0 before any epoch)
PrefixMax(h, n) == SetMax({0} \cup {h[i] : i \in 1..n})
\* the epochs (from 0) whose F1 is strictly above everything before them
Records(h) == {e \in 0..(Len(h) - 1) : h[e + 1] > PrefixMax(h, e)}
\* the epochs since the last such epoch (or since the start)
Trailing(h) ==
    IF Records(h) = {} THEN Len(h) ELSE Len(h) - 1 - SetMax(Records(h))
Count(s, x) == Cardinality({i \in 1..Len(s) : s[i] = x})
IsPrefix(s, u) == Len(s) <= Len(u) /\ \A i \in 1..Len(s) : s[i] = u[i]
ExampleF1 == <<1, 3, 2, 2, 2>>   \* the order of [0.5, 0.6, 0.55, 0.55, 0.55]

\* C1: after every checkpoint decision, a persisted checkpoint records the
\* maximum validation F1 of the epochs completed so far, and its epoch and
\* model / optimizer state are those of the earliest epoch that reached it.
CkptIsBestSoFar ==
    (Semi /\ pc # "decide" /\ ckpt # NoCkpt) =>
        LET m == PrefixMax(hist, Len(hist))
            first == CHOOSE e \in 0..(Len(hist) - 1) :
                        /\ hist[e + 1] = m
                        /\ \A j \in 0..(e - 1) : hist[j + 1] < m
        IN  /\ ckpt.best_f1 = m
            /\ ckpt.epoch = first
            /\ ckpt.unsup_optimizer = (first + 1) * (lenLab \div batch_size)
            /\ ckpt.sup_optimizer = (first + 1) * (lenLab \div batch_size)
\* a later epoch tied with the best one and the checkpoint is still the
\* earlier epoch's
CkptKeptOverTie ==
    /\ Semi /\ pc = "for" /\ ckpt # NoCkpt
    /\ Len(hist) >= 3
    /\ ckpt.epoch = 1
    /\ hist[3] = hist[2]

\* C2 (as claimed): in the very step in which the patience counter reaches
\* patience, the loop stops.
StopsWhenCounterReachesPatience ==
    [][(pc = "decide" /\ k' # k /\ k' = patience) => pc' = "done"]_vars
\* C2 (amended): the step that raises the counter to patience goes on to the
\* next pass of the epoch loop; the loop stops early exactly in the decision
\* of a non-improving epoch that finds the counter already equal to patience.
StopsOnlyBeyondPatience ==
    [][(Semi /\ pc = "decide") =>
         /\ (outcome' = "early_stop") <=> (valid_f1 <= best_f1 /\ k = patience)
         /\ (k' # k /\ k' = patience) => (pc' = "for" /\ outcome' = "running")
      ]_vars
\* an epoch is training although the counter has been raised to patience
EpochRunsAtPatienceLimit ==
    /\ Semi /\ pc = "sup"
    /\ patience >= 1 /\ k = patience

\* C3: the loop tolerates exactly patience consecutive non-improving epochs
\* and stops at the next one; for F1 = [0.5, 0.6, 0.55, 0.55, 0.55] and
\* patience 2 it is the third such epoch that stops it.
PatienceToleratesExactlyP ==
    (Semi /\ pc # "decide") =>
        /\ outcome = "early_stop" => Trailing(hist) = patience + 1
        /\ outcome # "early_stop" => Trailing(hist) <= patience
        /\ (patience = 2 /\ hist = ExampleF1) => outcome = "early_stop"
        /\ (patience = 2 /\ hist = SubSeq(ExampleF1, 1, 4)) =>
                outcome # "early_stop"
ExampleStopsAtThirdMiss ==
    /\ Semi /\ patience = 2 /\ hist = ExampleF1
    /\ outcome = "early_stop"

\* C4: torch.save is called in an epoch iff its F1 is strictly above best_f1
\* (0.0 at first); then best_f1 is that F1 and the counter is 0; otherwise
\* nothing is written and best_f1 stays. For the example F1 sequence the
\* checkpoints are those of steps 0 and 1.
CheckpointIffStrictlyBetter ==
    (Semi /\ pc # "decide") =>
        /\ saved = Records(hist)
        /\ best_f1 = PrefixMax(hist, Len(hist))
        /\ (Len(hist) > 0 /\ (Len(hist) - 1) \in Records(hist)) => k = 0
        /\ dirExists => ((ckpt # NoCkpt) <=> (saved # {}))
        /\ (dirExists /\ saved # {}) => ckpt.epoch = SetMax(saved)
        /\ ~dirExists => ckpt = NoCkpt
        /\ hist = ExampleF1 => saved = {0, 1}
ExampleSavesTwice ==
    /\ Semi /\ hist = ExampleF1 /\ pc = "done"
    /\ saved = {0, 1} /\ ckpt.epoch = 1

\* the events of one complete epoch, in program order
ExpectedTrace ==
    <<"unsup_sched", "sup_sched">>
        \o [i \in 1..n_unlabeled_batch |-> "unsup_step"]
        \o [i \in 1..n_labeled_batch |-> "sup_step"]
        \o <<"validate", "decide">>
\* C5: in every epoch: both schedulers once, then the unlabeled steps, then
\* the labeled steps, then validation, then the checkpoint decision.
EpochOrder ==
    Semi =>
        /\ IsPrefix(trace, ExpectedTrace)
        /\ (pc = "for" /\ epoch >= 0) => trace = ExpectedTrace
        /\ pc \in {"unsup", "sup", "validate", "decide"} =>
                (unsup_sched = epoch + 1 /\ sup_sched = epoch + 1)
FullEpochInOrder ==
    /\ Semi /\ pc = "for" /\ epoch >= 1
    /\ n_unlabeled_batch >= 2
    /\ trace = ExpectedTrace

\* C6 (as claimed): the loop ends only by exhausting n_epochs, by early
\* stopping or by a raised checkpoint-write error.
LoopEndsOnlyThreeWays ==
    (Semi /\ pc = "done") =>
        outcome \in {"exhausted", "early_stop", "ckpt_error"}

\* C7: each phase of an epoch makes exactly floor(len(labeled) / batch_size)
\* optimizer steps, whatever the size of the unlabeled dataset.
BatchCountsFromLabeledSize ==
    Semi =>
        /\ pc \notin {"config", "main"} =>
              /\ n_unlabeled_batch = lenLab \div batch_size
              /\ n_labeled_batch = lenLab \div batch_size
        /\ pc \in {"sup", "validate", "decide"} =>
              /\ Count(trace, "unsup_step") = lenLab \div batch_size
              /\ unsup_steps = (epoch + 1) * (lenLab \div batch_size)
        /\ pc \in {"validate", "decide"} =>
              /\ Count(trace, "sup_step") = lenLab \div batch_size
              /\ sup_steps = (epoch + 1) * (lenLab \div batch_size)
PhasesDoneWithUnevenSizes ==
    /\ Semi /\ pc = "validate" /\ epoch = 1
    /\ lenLab = 3 /\ batch_size = 2 /\ lenUnlab = 1
    /\ unsup_steps = 2 /\ sup_steps = 2

\* C8: the batch stream never signals end-of-data; the batches of a pass are
\* full except possibly the last and sum to N; the request after the last
\* batch of a pass yields the first batch of a new pass.
StreamNeverEnds ==
    Stream =>
        /\ outcome # "StopIteration"
        /\ requests >= 1 => Len(pass_sizes) >= 1
        /\ SeqSum(pass_sizes) <= gen.N
        /\ \A i \in 1..(Len(pass_sizes) - 1) : pass_sizes[i] = gen.B
        /\ \A i \in 1..Len(pass_sizes) : pass_sizes[i] \in 1..gen.B
        /\ Len(pass_sizes) >= 1 =>
              pass_sizes[1] = (IF gen.B <= gen.N THEN gen.B ELSE gen.N)
        /\ prev_total # -1 => prev_total = gen.N
SecondPassWithShortBatch ==
    /\ Stream /\ gen.N = 5 /\ gen.B = 3
    /\ prev_total = 5
    /\ pass_sizes = <<3, 2>>

\* C9: a checkpoint write that fails for a missing directory prints the
\* diagnostic and re-raises: the run is over, nothing was persisted and no
\* epoch, optimizer step, scheduler step or write follows the failure.
CheckpointFailureAborts ==
    (~dirExists /\ saved # {}) =>
        /\ pc = "done" /\ outcome = "ckpt_error" /\ diag
        /\ saved = {epoch}
        /\ ckpt = NoCkpt
        /\ Semi =>
              /\ Len(hist) = epoch + 1
              /\ unsup_sched = epoch + 1 /\ sup_sched = epoch + 1
              /\ unsup_steps = (epoch + 1) * n_unlabeled_batch
              /\ sup_steps = (epoch + 1) * n_labeled_batch
        /\ TN => model_version =
                    (epoch + 1) * DataLoaderLen(train_len, batch_size)
WriteFailsWithEpochsLeft ==
    /\ Semi /\ outcome = "ckpt_error"
    /\ epoch >= 1 /\ epoch + 1 < n_epochs

\* C10 (as claimed): clamping maps every label below 0 and every label above
\* 16 to class 16 and leaves the labels 0..16 as they are.
ClampCollapsesTo16 ==
    (TN /\ raw_label # NoLabel) =>
        /\ (raw_label < 0 \/ raw_label > 16) => loss_label = 16
        /\ raw_label \in 0..16 => loss_label = raw_label

\* C11 (as claimed): on every path that computes a cross-entropy loss the
\* label given to the loss lies in 0..16 and the loss never raises for a
\* label outside the classes.
LabelsClampedOnEveryPath ==
    loss_label # NoLabel =>
        /\ loss_label \in MinClass..MaxClass
        /\ outcome # "target_out_of_bounds"

\* C12: the encoder and embedding parameters are one set that both
\* optimizers update in place: after any interleaving they carry the steps of
\* both optimizers, while the decoder carries only the unsupervised steps and
\* the classifier only the supervised ones.
SharedEncoderParameters ==
    Semi =>
        /\ params["encoder"] = unsup_steps + sup_steps
        /\ params["embedding"] = unsup_steps + sup_steps
        /\ params["decode_embedding"] = unsup_steps
        /\ params["decoder"] = unsup_steps
        /\ params["classifier"] = sup_steps
BothOptimizersUpdatedEncoder ==
    /\ Semi /\ epoch = 1 /\ pc = "sup"
    /\ unsup_steps >= 2 /\ sup_steps >= 2
    /\ sup_steps < unsup_steps
    /\ params["encoder"] = unsup_steps + sup_steps

\* C13 (as claimed): a validation loss that is NaN, +infinity or -infinity
\* never replaces best_loss and never triggers a checkpoint write.
NonFiniteLossNeverSelected ==
    TN =>
        /\ best_loss \notin {NegInf, NaN}
        /\ ckpt # NoCkpt => ckpt.loss[1] = "fin"

\* C14 (as claimed): with an unknown enc_model key the entry point falls back
\* to the PCA encoder with a warning and the run enters the epoch loop
\* without raising.
UnknownKeyFallsBackToPca ==
    (Semi /\ enc_key \notin KnownKeys /\ pc # "config") =>
        /\ enc_class = "PCAEncoder"
        /\ warned
        /\ outcome # "attribute_error"
        /\ pc = "done" => epoch >= 0

\* C15 (as claimed): the divisor of an epoch's reported train loss is the
\* number of samples the epoch processed.
EpochLossPerSample ==
    (TN /\ pc = "tn_test") => denom = n_seen

\* C16 (as claimed): the value _train_one_epoch_damic backpropagates is the
\* negative of the sum over the samples of the log of their total likelihood.
DamicMinimisesNegativeLogLikelihood ==
    backprop # NoFloat => backprop = FloatNeg(SumLog(liks))

\* C17 (as claimed): the DAMIC loss of a batch is finite even when a sample's
\* total likelihood is exactly 0.
DamicLossFiniteAtZeroLikelihood ==
    (backprop # NoFloat /\ \E i \in DOMAIN liks : liks[i] = 0) =>
        backprop[1] = "fin"

\* C18 (as claimed): the DAMIC loss combines exactly n_clusters experts with
\* a gate distribution over exactly n_clusters clusters, and does so without
\* raising.
DamicUsesNClusters ==
    (TN /\ mode = "damic" /\ experts_used > 0) =>
        /\ experts_used = n_clusters
        /\ GateOutputs = n_clusters
        /\ outcome # "index_error"

\* C19 (as claimed): for each of AE, CAE, VAE, CVAE and ConvAE the epoch
\* trainer selects its loss without raising: MSE when not variational, the
\* model's own loss when it calculates its own, the variational loss
\* otherwise.
EveryVariantSelectsOneLoss ==
    (TN /\ mode = "plain" /\ loss_used # "none") =>
        /\ outcome # "attribute_error"
        /\ loss_used =
              IF variant \in {"AE", "CAE"} THEN "mse"
              ELSE IF variant = "ConvAE" THEN "own"
              ELSE "elbo"

\* C20 (as claimed): the optimizer steps of epoch 0 use learning rates that
\* differ from the configured initial rates.
FirstEpochRatesAlreadyDecayed ==
    (Semi /\ epoch = 0 /\ pc \in {"unsup", "sup"}) =>
        (unsup_lr # 0 /\ sup_lr # 0)

\* C20 (amended): both schedulers have been stepped once when the training of
\* epoch 0 starts, yet the optimizer steps of epoch 0 use the configured
\* initial rates: one scheduler step is fewer than the step size.
FirstEpochUsesInitialRates ==
    (Semi /\ epoch = 0 /\ pc \in {"unsup", "sup", "validate", "decide"}) =>
        /\ unsup_sched = 1 /\ sup_sched = 1
        /\ unsup_lr = 0 /\ sup_lr = 0
FirstEpochTrainedAfterSchedulerStep ==
    /\ Semi /\ epoch = 0 /\ pc = "sup"
    /\ unsup_sched = 1 /\ sup_sched = 1
    /\ unsup_steps >= 1 /\ sup_steps >= 1
    /\ unsup_lr = 0 /\ sup_lr = 0

\* C21 (as claimed): a run that ends by exhausting n_epochs or by early
\* stopping after at least one epoch has persisted a checkpoint.
FinishedRunHasCheckpoint ==
    (Semi /\ pc = "done" /\ outcome \in {"exhausted", "early_stop"}
          /\ epoch >= 0) =>
        ckpt # NoCkpt

\* C22 (as claimed): the embeddings a fit method returns are computed with
\* the parameters of best_model.
EmbeddingsFromBestModel ==
    (TN /\ outcome = "fitted" /\ best_model # -1) =>
        embed_model = best_model

\* C23 (as claimed): with n_epochs >= 1 train_network returns a best model
\* that is not None, and the snapshot and the checkpoint are of one epoch.
ReturnsBestModel ==
    (TN /\ pc = "done" /\ n_epochs >= 1
        /\ outcome \in {"returned", "fitted", "none_type_error"}) =>
        /\ best_model # -1
        /\ ckpt # NoCkpt
        /\ ckpt.model = best_model

\* C24 (as claimed): with at least one labeled sample and a batch size of at
\* least 1, each phase of an epoch processes at least one batch and the
\* sample count that divides the running loss is positive.
EveryPhaseHasABatch ==
    (Semi /\ pc \notin {"config", "main"}) =>
        /\ n_unlabeled_batch >= 1
        /\ n_labeled_batch >= 1
        /\ outcome # "zero_division"
        /\ pc \in {"sup", "validate", "decide"} => unsup_steps >= 1

\* C25: a step of the labeled phase leaves the decode_embedding and decoder
\* parameters and the unsupervised optimizer as they are, a step of the
\* unlabeled phase leaves the classifier parameters and the supervised
\* optimizer as they are, and validation leaves every parameter and both
\* optimizers as they are.
PhasesKeepOtherParameters ==
    [][/\ (Semi /\ pc = "sup") =>
              /\ params'["decode_embedding"] = params["decode_embedding"]
              /\ params'["decoder"] = params["decoder"]
              /\ unsup_steps' = unsup_steps
       /\ (Semi /\ pc = "unsup") =>
              /\ params'["classifier"] = params["classifier"]
              /\ sup_steps' = sup_steps
       /\ (Semi /\ pc = "validate") =>
              /\ params' = params
              /\ unsup_steps' = unsup_steps
              /\ sup_steps' = sup_steps]_vars
AllPhasesRanTwice ==
    /\ Semi /\ pc = "decide" /\ epoch = 1
    /\ params["classifier"] >= 2
    /\ params["decoder"] >= 2
    /\ params["encoder"] = params["classifier"] + params["decoder"]

\* C26 (as claimed): after every checkpoint decision the patience counter is
\* within 0..patience and equals the number of consecutive non-improving
\* epochs since the last improvement (or since the start).
CounterCountsEveryMiss ==
    (Semi /\ pc # "decide") =>
        /\ 0 <= k /\ k <= patience
        /\ k = Trailing(hist)

\* C26 (amended): after every checkpoint decision the patience counter is
\* within 0..patience and equals the number of consecutive non-improving
\* epochs since the last improvement (or since the start), except after the
\* epoch that stops the run early, which leaves it at patience; best_f1 is
\* the best F1 seen and never decreases.
CounterCountsMissesUpToPatience ==
    /\ [](Semi /\ pc # "decide" =>
            /\ 0 <= k /\ k <= patience
            /\ outcome # "early_stop" => k = Trailing(hist)
            /\ outcome = "early_stop" =>
                  (k = patience /\ Trailing(hist) = patience + 1)
            /\ best_f1 = PrefixMax(hist, Len(hist)))
    /\ [][Semi => best_f1' >= best_f1]_vars
CounterStaysAtPatienceOnStop ==
    /\ Semi /\ pc = "done" /\ outcome = "early_stop"
    /\ patience = 2 /\ k = 2
    /\ best_f1 > 0
    /\ Trailing(hist) = 3

Init == InitSemi \/ InitTN \/ InitStream
Next == NextSemi \/ NextTN \/ NextStream
Spec == Init /\ [][Next]_vars
====
